---- MODULE Spec2Model ----
(***************************************************************************)
(* A model of rag_demo: the query router (router.py), the reranker         *)
(* (reranker.py), the chunking configuration and dispatch (chunking.py)    *)
(* and the query pipeline of __main__.py.                                  *)
(*                                                                         *)
(* Text is a sequence of one-character strings.  Scores are counted in     *)
(* halves, so that the reranker's neutral score 0.5 is the integer 1.      *)
(***************************************************************************)
EXTENDS Integers, Sequences, FiniteSets, TLC

VARIABLES
    \* ---- query pipeline (__main__.py)
    args,              \* the parsed command line
    question,          \* the text the user types at the prompt
    store,             \* the stored chunks, in the store's ORDER BY order
    pc,                \* the pipeline's position
    query_router,      \* the router object, or None
    reranker,          \* "Reranker" once one is built, else "None"
    decision,          \* what is_query_safe returned in this run
    rows,              \* the rows variable of __main__.py
    retrieved,         \* the rows as the vector search returned them
    reranked_results,  \* what Reranker.rerank returned
    context,           \* the context handed to the answer port
    calls,             \* the calls made to the ports, in order
    \* ---- one call of is_query_safe (router.py)
    rt_pc, rt_query, rt_result,
    \* ---- one call of Reranker.rerank (reranker.py)
    rk_pc, rk_documents, rk_top_n, rk_response, rk_result,
    \* ---- one ChunkingConfig and one chunk_text call (chunking.py)
    ck_pc, ck_args, ck_text, ck_config, ck_result

pipelineVars == <<args, question, store, pc, query_router, reranker, decision, rows,
                  retrieved, reranked_results, context, calls>>
routerVars == <<rt_pc, rt_query, rt_result>>
rerankVars == <<rk_pc, rk_documents, rk_top_n, rk_response, rk_result>>
chunkVars == <<ck_pc, ck_args, ck_text, ck_config, ck_result>>
vars == <<pipelineVars, routerVars, rerankVars, chunkVars>>

(***************************************************************************)
(* Bounds of the model.                                                    *)
(***************************************************************************)
\* the longest query drawn
MaxQueryLen == 4
\* stands for QueryRouter.max_length (2048 in the source), scaled to the
\* queries drawn
max_length == 2
\* the most documents handed to rerank, and the most chunks in the store
MaxDocs == 3
\* backend scores are 0..MaxScore halves
MaxScore == 1
\* the greatest --retrieval-top-k and --rerank-top-n drawn
MaxTopK == 3
\* chunk sizes and overlaps are drawn from -1..MaxChunkSize
MaxChunkSize == 2
\* the longest text handed to chunk_text
MaxTextLen == 3

(***************************************************************************)
(* Text helpers.                                                           *)
(***************************************************************************)
RECURSIVE SeqsUpTo(_, _)
\* all sequences over S of length at most n
SeqsUpTo(S, n) ==
    IF n = 0 THEN {<<>>}
    ELSE LET shorter == SeqsUpTo(S, n - 1)
         IN  shorter \cup {Append(s, c) : s \in {t \in shorter : Len(t) = n - 1}, c \in S}

Min(a, b) == IF a <= b THEN a ELSE b

\* what str.isspace holds of, among the characters drawn
Whitespace == {" "}
Alphabet == {" ", "r", "R", "m"}
Queries == SeqsUpTo(Alphabet, MaxQueryLen)

\* (?i): the case-folded character
Fold(c) == IF c = "R" THEN "r" ELSE c

RECURSIVE lstrip(_)
lstrip(s) == IF s # <<>> /\ Head(s) \in Whitespace THEN lstrip(Tail(s)) ELSE s

RECURSIVE rstrip(_)
rstrip(s) ==
    IF s # <<>> /\ s[Len(s)] \in Whitespace THEN rstrip(SubSeq(s, 1, Len(s) - 1)) ELSE s

\* str.strip()
strip(s) == rstrip(lstrip(s))

(***************************************************************************)
(* router.py                                                               *)
(***************************************************************************)
\* A pattern is a sequence of elements: a literal matched case-insensitively
\* ("lit"), \s+ ("ws"), or an optional literal ("opt", as the s? of passwords?).
Lit(c) == [k |-> "lit", c |-> c]
Ws == [k |-> "ws", c |-> " "]
Opt(c) == [k |-> "opt", c |-> c]

\* The source's thirteen patterns have three shapes: word\s+word, word and
\* words?.  The model keeps one pattern of each shape, over one-letter words.
DEFAULT_PATTERNS ==
    << <<Lit("r"), Ws, Lit("m")>>,
       <<Lit("m"), Lit("m")>>,
       <<Lit("m"), Lit("r"), Opt("r")>> >>

RECURSIVE MatchAt(_, _, _, _)
\* pattern elements j.. match the text from position i on
MatchAt(pat, j, s, i) ==
    IF j > Len(pat) THEN TRUE
    ELSE LET e == pat[j] IN
         CASE e.k = "lit" ->
                i <= Len(s) /\ Fold(s[i]) = e.c /\ MatchAt(pat, j + 1, s, i + 1)
           [] e.k = "ws" ->
                i <= Len(s) /\ s[i] \in Whitespace
                /\ (MatchAt(pat, j, s, i + 1) \/ MatchAt(pat, j + 1, s, i + 1))
           [] OTHER ->
                \/ MatchAt(pat, j + 1, s, i)
                \/ i <= Len(s) /\ Fold(s[i]) = e.c /\ MatchAt(pat, j + 1, s, i + 1)

\* pattern.search(text)
search(pat, s) == \E i \in 1..(Len(s) + 1) : MatchAt(pat, 1, s, i)

\* __slots__ of the class that @dataclass(slots=True) builds: its fields
QueryRouter_slots == {"blocked_patterns", "max_length"}

None == [kind |-> "None", blocked_patterns |-> <<>>, max_length |-> 0,
         attrs |-> {}]

\* the outcome of a call: the exception it raised ("" for none) and its value
Returned(v) == [raised |-> "", value |-> v]
Raised(e, v) == [raised |-> e, value |-> v]

\* QueryRouter.__post_init__: self._compiled = [...].  An attribute that is
\* no slot of a slotted class cannot be set.
post_init(self) ==
    IF "_compiled" \in QueryRouter_slots
    THEN Returned([self EXCEPT !.attrs = @ \cup {"_compiled"}])
    ELSE Raised("AttributeError", None)

\* QueryRouter(blocked_patterns, max_length): the generated __init__ sets the
\* fields, then calls __post_init__
QueryRouter(patterns, maxlen) ==
    post_init([kind |-> "QueryRouter", blocked_patterns |-> patterns,
               max_length |-> maxlen,
               attrs |-> {"blocked_patterns", "max_length"}])

EmptyReason == "Query is empty."
LengthReason ==
    "Query rejected: exceeds maximum allowed length. Please shorten your question and try again."
MaliciousReason ==
    "Query rejected: detected potentially malicious intent (contains disallowed instructions)."
AcceptedReason == "Query accepted."

Decision(allowed, reason) == [allowed |-> allowed, reason |-> reason]
NoDecision == Decision(FALSE, "")

\* QueryRouter.inspect(self, query)
inspect(self, query) ==
    LET cleaned_query == strip(query) IN
    IF cleaned_query = <<>> THEN Returned(Decision(FALSE, EmptyReason))
    ELSE IF Len(cleaned_query) > self.max_length
    THEN Returned(Decision(FALSE, LengthReason))
    ELSE IF "_compiled" \notin self.attrs THEN Raised("AttributeError", NoDecision)
    ELSE IF \E p \in 1..Len(self.blocked_patterns) :
                search(self.blocked_patterns[p], cleaned_query)
    THEN Returned(Decision(FALSE, MaliciousReason))
    ELSE Returned(Decision(TRUE, AcceptedReason))

\* is_query_safe(query, router): router = router or QueryRouter()
is_query_safe(query, router) ==
    LET made == IF router.kind = "None"
                THEN QueryRouter(DEFAULT_PATTERNS, max_length)
                ELSE Returned(router)
    IN  IF made.raised # "" THEN Raised(made.raised, NoDecision)
        ELSE inspect(made.value, query)

(***************************************************************************)
(* reranker.py                                                             *)
(***************************************************************************)
\* the neutral score 0.5 of the fallback, in halves
NEUTRAL_SCORE == 1

\* One entry of the backend's JSON response: a number ("num"), a sequence
\* ("list", full when it has a first element, the number v), an object
\* ("dict", full when it has the key "score", with the number v), null, or a
\* string ("str").
Num(v) == [t |-> "num", v |-> v, full |-> TRUE]
Entry(t, v, full) == [t |-> t, v |-> v, full |-> full]

\* document texts: "c1", "c2", ...
Docs(n) == [i \in 1..n |-> "c" \o ToString(i)]

Reverse(s) == [i \in 1..Len(s) |-> s[Len(s) + 1 - i]]

\* lines 82-88: the response body brought to one score per entry.  A body
\* that is no list is left as it is (zip then iterates its keys).
normalize(body) ==
    LET items == body.items
        n == Len(items)
    IN  IF body.isList /\ n > 0
        THEN IF items[1].t = "list"
             THEN IF \E i \in 1..n : items[i].t = "list" /\ ~items[i].full
                  THEN Raised("IndexError", <<>>)
                  ELSE Returned([i \in 1..n |->
                           IF items[i].t = "list" THEN Num(items[i].v) ELSE items[i]])
             ELSE IF items[1].t = "dict"
             THEN IF \E i \in 1..n : items[i].t # "dict"
                  THEN Raised("AttributeError", <<>>)
                  ELSE Returned([i \in 1..n |->
                           IF items[i].full THEN Num(items[i].v) ELSE Num(0)])
             ELSE Returned(items)
        ELSE Returned(items)

zip_misaligned(documents, scores) ==
    [i \in 1..Min(Len(documents), Len(scores)) |->
        [doc |-> documents[i], score |-> scores[Len(scores) + 1 - i]]]

\* line 91: list(zip(documents, scores))
zip(documents, scores) ==
    [i \in 1..Min(Len(documents), Len(scores)) |->
        [doc |-> documents[i], score |-> scores[i]]]

RECURSIVE InsertAsc(_, _)
\* x put after the entries of the ascending run s that are not greater
InsertAsc(s, x) ==
    IF s = <<>> THEN <<x>>
    ELSE IF x.score.v < Head(s).score.v THEN <<x>> \o s
    ELSE <<Head(s)>> \o InsertAsc(Tail(s), x)

RECURSIVE SortAsc(_)
\* a stable ascending sort by score
SortAsc(s) ==
    IF s = <<>> THEN <<>>
    ELSE InsertAsc(SortAsc(SubSeq(s, 1, Len(s) - 1)), s[Len(s)])

sort_then_reverse(doc_scores) == Reverse(SortAsc(doc_scores))

\* line 92: doc_scores.sort(key=..., reverse=True).  list.sort reverses the
\* list, sorts it stably ascending and reverses it again.
sort_reverse(doc_scores) == Reverse(SortAsc(Reverse(doc_scores)))

\* the sort compares scores: with two or more entries, one that is no
\* number makes a comparison raise TypeError
Unsortable(doc_scores) ==
    Len(doc_scores) >= 2 /\ \E i \in 1..Len(doc_scores) : doc_scores[i].score.t # "num"

\* top_n: None, or a count
NoTopN == [given |-> FALSE, n |-> 0]
TopN(n) == [given |-> TRUE, n |-> n]

\* lines 95-98: doc_scores[:top_n] when top_n is given
slice(doc_scores, top_n) ==
    IF top_n.given THEN SubSeq(doc_scores, 1, Min(top_n.n, Len(doc_scores)))
    ELSE doc_scores

\* lines 100-104: the documents in their order, each with the neutral score
fallback(documents) ==
    [i \in 1..Len(documents) |-> [doc |-> documents[i], score |-> Num(NEUTRAL_SCORE)]]

\* what requests.post and raise_for_status raise, all RequestExceptions
RequestExceptions == {"ConnectionError", "Timeout", "HTTPError"}

\* Reranker.rerank(query, documents, top_n), given what the backend answers
rerank(documents, top_n, response) ==
    IF documents = <<>> THEN Returned(<<>>)
    ELSE IF response.kind \in RequestExceptions THEN Returned(fallback(documents))
    ELSE LET scores == normalize(response) IN
         IF scores.raised # "" THEN Raised(scores.raised, <<>>)
         ELSE LET doc_scores == zip(documents, scores.value) IN
              IF Unsortable(doc_scores) THEN Raised("TypeError", <<>>)
              ELSE Returned(slice(sort_reverse(doc_scores), top_n))

\* rerank_with_metadata(query, documents, top_n): documents carry a score
rerank_with_metadata(documents, top_n, response) ==
    rerank([i \in 1..Len(documents) |-> documents[i].doc], top_n, response)

\* ---- what the scoring backend can answer
Fail(e) == [kind |-> e, isList |-> FALSE, items |-> <<>>]
Ok(isList, items) == [kind |-> "ok", isList |-> isList, items |-> items]
Shapes == {"num", "list", "dict"}

\* the entry of shape sh that carries no score: null, [] or {}
Hollow(sh) == Entry(IF sh = "num" THEN "null" ELSE sh, 0, FALSE)

\* lists of one shape, of any length, with at most one hollow entry (at d)
ListBodies ==
    { [i \in 1..Len(sc) |-> IF i = d THEN Hollow(sh) ELSE Entry(sh, sc[i], TRUE)] :
        sh \in Shapes, sc \in SeqsUpTo(0..MaxScore, MaxDocs), d \in 0..MaxDocs }

Responses ==
    {Fail(e) : e \in RequestExceptions}
    \cup {Ok(FALSE, <<Entry("str", 0, TRUE)>>)}
    \cup {Ok(TRUE, b) : b \in ListBodies}

TopNs == {NoTopN} \cup {TopN(n) : n \in 0..MaxTopK}

(***************************************************************************)
(* chunking.py                                                             *)
(***************************************************************************)
\* the members of ChunkingStrategy
ChunkingStrategy == {"recursive_character", "sentence_transformer", "naive"}

NoConfig == [chunk_size |-> 0, chunk_overlap |-> 0, strategy |-> "", bound |-> FALSE]

\* ChunkingConfig.__init__: the three assignments, and nothing else
ChunkingConfig(chunk_size, chunk_overlap, strategy) ==
    Returned([chunk_size |-> chunk_size, chunk_overlap |-> chunk_overlap,
              strategy |-> strategy, bound |-> TRUE])

\* range(0, n, step) as the sequence of its values; a step of 0 is an error
\* the caller has excluded
range0(n, step) ==
    IF step < 0 \/ n <= 0 THEN <<>>
    ELSE [i \in 1..((n + step - 1) \div step) |-> (i - 1) * step]

\* chunk_text_naive: [text[i : i + chunk_size] for i in range(0, len(text), chunk_size)]
chunk_text_naive(text, chunk_size) ==
    IF chunk_size = 0 THEN Raised("ValueError", <<>>)
    ELSE LET starts == range0(Len(text), chunk_size) IN
         Returned([j \in 1..Len(starts) |->
             SubSeq(text, starts[j] + 1, Min(starts[j] + chunk_size, Len(text)))])

\* What the langchain splitter built inside the chunk call (lines 90-95,
\* 116-120) does with the sizes: every version rejects an overlap greater
\* than the size with ValueError, later versions also a size <= 0 or an
\* overlap < 0; otherwise the text is split.
SplitterOutcomes(c) ==
    IF c.chunk_overlap > c.chunk_size THEN {"ValueError"}
    ELSE IF c.chunk_size <= 0 \/ c.chunk_overlap < 0 THEN {"", "ValueError"}
    ELSE {""}

\* splitter.split_text(text); the chunks are not modelled beyond being some
\* for a text that is not empty
splitter_split_text(text, lib) ==
    IF lib # "" THEN Raised(lib, <<>>) ELSE Returned(IF text = <<>> THEN <<>> ELSE <<text>>)

\* chunk_text(text, config): the dispatch on config.strategy
chunk_text(text, config, lib) ==
    IF config.strategy = "naive" THEN chunk_text_naive(text, config.chunk_size)
    ELSE IF config.strategy = "recursive_character" THEN splitter_split_text(text, lib)
    ELSE IF config.strategy = "sentence_transformer" THEN splitter_split_text(text, lib)
    ELSE Raised("ValueError", <<>>)

(***************************************************************************)
(* __main__.py: one run of the program, from the construction of the       *)
(* components to the answer.  The run is one with --skip-embedding-step:   *)
(* the store already holds its chunks.                                     *)
(***************************************************************************)
Args ==
    [disable_query_router : BOOLEAN, use_reranker : BOOLEAN,
     retrieval_top_k : 0..MaxTopK, rerank_top_n : 0..MaxTopK]

\* the questions typed: an empty one, a blank one, a benign one, one that
\* matches a blocked pattern, and one longer than max_length
Questions ==
    {<<>>, <<" ">>, <<"r">>, <<"m", "m">>, [i \in 1..(max_length + 1) |-> "r"]}

\* the separator of the context
SEPARATOR == "\n\n"

RECURSIVE join(_, _)
\* sep.join(texts), as the sequence of its pieces
join(sep, texts) ==
    IF Len(texts) <= 1 THEN texts
    ELSE <<Head(texts), sep>> \o join(sep, Tail(texts))

Call(port) == [port |-> port, k |-> 0, docs |-> <<>>, top_n |-> NoTopN, context |-> <<>>]

retrieval_k_always_top_k(a) == a.retrieval_top_k

\* line 200: retrieval_k = args.retrieval_top_k if args.use_reranker else args.rerank_top_n
retrieval_k(a) == IF a.use_reranker THEN a.retrieval_top_k ELSE a.rerank_top_n

\* lines 202-207: SELECT ... ORDER BY score DESC LIMIT k, by the chunk of each row
vector_query(k) == SubSeq(store, 1, Min(k, Len(store)))

PipelineIdle ==
    /\ args = [disable_query_router |-> TRUE, use_reranker |-> FALSE,
               retrieval_top_k |-> 0, rerank_top_n |-> 0]
    /\ question = <<>> /\ store = <<>> /\ pc = "idle"
    /\ query_router = None /\ reranker = "None"
    /\ decision = Returned(NoDecision)
    /\ rows = <<>> /\ retrieved = <<>> /\ reranked_results = <<>>
    /\ context = <<>> /\ calls = <<>>

RouterIdle == rt_pc = "idle" /\ rt_query = <<>> /\ rt_result = Returned(NoDecision)

RerankIdle ==
    /\ rk_pc = "idle" /\ rk_documents = <<>> /\ rk_top_n = NoTopN
    /\ rk_response = Fail("ConnectionError") /\ rk_result = Returned(<<>>)

ChunkIdle ==
    /\ ck_pc = "idle" /\ ck_args = NoConfig /\ ck_text = <<>>
    /\ ck_config = NoConfig /\ ck_result = Returned(<<>>)

Init ==
    /\ args \in Args
    /\ question \in Questions
    /\ store \in {Docs(n) : n \in 0..MaxDocs}
    /\ pc = "START"
    /\ query_router = None /\ reranker = "None"
    /\ decision = Returned(NoDecision)
    /\ rows = <<>> /\ retrieved = <<>> /\ reranked_results = <<>>
    /\ context = <<>> /\ calls = <<>>
    /\ RouterIdle /\ RerankIdle /\ ChunkIdle

\* lines 130-144: the router and the reranker are built.  An exception that
\* nothing catches ends the program.
Startup ==
    /\ pc = "START"
    /\ LET made == IF args.disable_query_router THEN Returned(None)
                   ELSE QueryRouter(DEFAULT_PATTERNS, max_length)
       IN  IF made.raised # ""
           THEN pc' = "CRASHED" /\ UNCHANGED <<query_router, reranker>>
           ELSE /\ query_router' = made.value
                /\ reranker' = IF args.use_reranker THEN "Reranker" ELSE "None"
                /\ pc' = "ROUTING"
    /\ UNCHANGED <<args, question, store, decision, rows, retrieved,
                   reranked_results, context, calls>>
    /\ UNCHANGED <<routerVars, rerankVars, chunkVars>>

\* lines 181-191: the question is read and the router asked
Routing ==
    /\ pc = "ROUTING"
    /\ IF query_router.kind # "None"
       THEN LET r == is_query_safe(question, query_router) IN
            /\ decision' = r
            /\ pc' = IF r.raised # "" THEN "CRASHED"
                     ELSE IF ~r.value.allowed THEN "BLOCKED" ELSE "EMBEDDING"
       ELSE pc' = "EMBEDDING" /\ UNCHANGED decision
    /\ UNCHANGED <<args, question, store, query_router, reranker, rows, retrieved,
                   reranked_results, context, calls>>
    /\ UNCHANGED <<routerVars, rerankVars, chunkVars>>

Embedding_retry ==
    /\ pc = "EMBEDDING"
    /\ calls' = Append(calls, Call("embed"))
    /\ \E ok \in BOOLEAN : pc' = IF ok THEN "RETRIEVING" ELSE "EMBEDDING"
    /\ UNCHANGED <<args, question, store, query_router, reranker, decision, rows,
                   retrieved, reranked_results, context>>
    /\ UNCHANGED <<routerVars, rerankVars, chunkVars>>

\* line 196: question_embedding = get_embedding(question)
Embedding ==
    /\ pc = "EMBEDDING"
    /\ calls' = Append(calls, Call("embed"))
    /\ \E ok \in BOOLEAN : pc' = IF ok THEN "RETRIEVING" ELSE "FAILED"
    /\ UNCHANGED <<args, question, store, query_router, reranker, decision, rows,
                   retrieved, reranked_results, context>>
    /\ UNCHANGED <<routerVars, rerankVars, chunkVars>>

\* lines 200-207: the vector search
Retrieving ==
    /\ pc = "RETRIEVING"
    /\ calls' = Append(calls, [Call("vector") EXCEPT !.k = retrieval_k(args)])
    /\ \E ok \in BOOLEAN :
        IF ok
        THEN /\ rows' = vector_query(retrieval_k(args))
             /\ retrieved' = rows'
             /\ pc' = IF args.use_reranker /\ reranker # "None"
                      THEN "RERANKING" ELSE "ANSWERING"
        ELSE pc' = "FAILED" /\ UNCHANGED <<rows, retrieved>>
    /\ UNCHANGED <<args, question, store, query_router, reranker, decision,
                   reranked_results, context>>
    /\ UNCHANGED <<routerVars, rerankVars, chunkVars>>

\* lines 210-224: the second stage
Reranking ==
    /\ pc = "RERANKING"
    /\ LET documents == rows IN
       /\ calls' = Append(calls, [Call("rerank") EXCEPT
                                    !.docs = documents, !.top_n = TopN(args.rerank_top_n)])
       /\ \E response \in Responses :
            LET r == rerank(documents, TopN(args.rerank_top_n), response) IN
            IF r.raised # ""
            THEN pc' = "FAILED" /\ UNCHANGED <<rows, reranked_results>>
            ELSE /\ reranked_results' = r.value
                 /\ rows' = [i \in 1..Len(r.value) |-> r.value[i].doc]
                 /\ pc' = "ANSWERING"
    /\ UNCHANGED <<args, question, store, query_router, reranker, decision,
                   retrieved, context>>
    /\ UNCHANGED <<routerVars, rerankVars, chunkVars>>

\* lines 229-248: the context is joined and the answer port called
Answering ==
    /\ pc = "ANSWERING"
    /\ context' = join(SEPARATOR, rows)
    /\ calls' = Append(calls, [Call("answer") EXCEPT !.context = context'])
    /\ \E ok \in BOOLEAN : pc' = IF ok THEN "DONE" ELSE "FAILED"
    /\ UNCHANGED <<args, question, store, query_router, reranker, decision, rows,
                   retrieved, reranked_results>>
    /\ UNCHANGED <<routerVars, rerankVars, chunkVars>>

Next == Startup \/ Routing \/ Embedding \/ Retrieving \/ Reranking \/ Answering

Spec == Init /\ [][Next]_vars

(***************************************************************************)
(* One call of is_query_safe, on every query.                              *)
(***************************************************************************)
RouterInit ==
    /\ rt_pc = "call" /\ rt_query \in Queries /\ rt_result = Returned(NoDecision)
    /\ PipelineIdle /\ RerankIdle /\ ChunkIdle

\* is_query_safe(query): no router object exists to hand in
IsQuerySafeCall ==
    /\ rt_pc = "call"
    /\ rt_result' = is_query_safe(rt_query, None)
    /\ rt_pc' = "ended"
    /\ UNCHANGED rt_query
    /\ UNCHANGED <<pipelineVars, rerankVars, chunkVars>>

RouterNext == IsQuerySafeCall

SpecRouter == RouterInit /\ [][RouterNext]_vars

(***************************************************************************)
(* One call of Reranker.rerank, on every answer of the backend.            *)
(***************************************************************************)
RerankInit ==
    /\ rk_pc = "call"
    /\ rk_documents \in {Docs(n) : n \in 0..MaxDocs}
    /\ rk_top_n \in TopNs
    /\ rk_response \in Responses
    /\ rk_result = Returned(<<>>)
    /\ PipelineIdle /\ RouterIdle /\ ChunkIdle

RerankCall ==
    /\ rk_pc = "call"
    /\ rk_result' = rerank(rk_documents, rk_top_n, rk_response)
    /\ rk_pc' = "returned"
    /\ UNCHANGED <<rk_documents, rk_top_n, rk_response>>
    /\ UNCHANGED <<pipelineVars, routerVars, chunkVars>>

\* the documents arrive with their first-stage score, which is dropped
RerankWithMetadataCall ==
    /\ rk_pc = "call"
    /\ rk_result' = rerank_with_metadata(
            [i \in 1..Len(rk_documents) |-> [doc |-> rk_documents[i], score |-> Num(0)]],
            rk_top_n, rk_response)
    /\ rk_pc' = "returned"
    /\ UNCHANGED <<rk_documents, rk_top_n, rk_response>>
    /\ UNCHANGED <<pipelineVars, routerVars, chunkVars>>

RerankNext == RerankCall \/ RerankWithMetadataCall

SpecRerank == RerankInit /\ [][RerankNext]_vars

(***************************************************************************)
(* One ChunkingConfig, and one chunk_text call with it.                    *)
(***************************************************************************)
ChunkInit ==
    /\ ck_pc = "args"
    /\ ck_args \in [chunk_size : (-1)..MaxChunkSize, chunk_overlap : (-1)..MaxChunkSize,
                    strategy : ChunkingStrategy \cup {"unknown"}, bound : {FALSE}]
    /\ ck_text \in SeqsUpTo({"a", "b"}, MaxTextLen)
    /\ ck_config = NoConfig /\ ck_result = Returned(<<>>)
    /\ PipelineIdle /\ RouterIdle /\ RerankIdle

ConfigConstruct ==
    /\ ck_pc = "args"
    /\ LET made == ChunkingConfig(ck_args.chunk_size, ck_args.chunk_overlap, ck_args.strategy)
       IN  IF made.raised # ""
           THEN ck_pc' = "rejected" /\ UNCHANGED ck_config
           ELSE ck_pc' = "configured" /\ ck_config' = made.value
    /\ UNCHANGED <<ck_args, ck_text, ck_result>>
    /\ UNCHANGED <<pipelineVars, routerVars, rerankVars>>

ChunkTextCall ==
    /\ ck_pc = "configured"
    /\ \E lib \in SplitterOutcomes(ck_config) :
            ck_result' = chunk_text(ck_text, ck_config, lib)
    /\ ck_pc' = "chunked"
    /\ UNCHANGED <<ck_args, ck_text, ck_config>>
    /\ UNCHANGED <<pipelineVars, routerVars, rerankVars>>

ChunkNext == ConfigConstruct \/ ChunkTextCall

SpecChunk == ChunkInit /\ [][ChunkNext]_vars

(***************************************************************************)
(* The claims.                                                             *)
(***************************************************************************)
\* the decision the ordered checks prescribe: empty after trimming, then
\* over max_length, then a blocked pattern, else accepted
ExpectedDecision(q) ==
    LET t == strip(q) IN
    IF t = <<>> THEN Decision(FALSE, EmptyReason)
    ELSE IF Len(t) > max_length THEN Decision(FALSE, LengthReason)
    ELSE IF \E p \in 1..Len(DEFAULT_PATTERNS) : search(DEFAULT_PATTERNS[p], t)
    THEN Decision(FALSE, MaliciousReason)
    ELSE Decision(TRUE, AcceptedReason)

RunEnded == pc \in {"CRASHED", "BLOCKED", "DONE", "FAILED"}

\* C1: in a run with the router enabled, a query that inspect rejects ends the
\* run in BLOCKED with the rejection reason reported, and no port is called.
C1_RejectedQueryEndsBlocked ==
    (~args.disable_query_router /\ RunEnded /\ ~ExpectedDecision(question).allowed)
        => /\ pc = "BLOCKED"
           /\ decision = Returned(ExpectedDecision(question))
           /\ calls = <<>>

\* C2: the answer port is called only with a non-empty context; a run whose
\* context is empty ends without an answer call.
C2_AnswerOnlyWithContext ==
    \A i \in 1..Len(calls) : calls[i].port = "answer" => calls[i].context # <<>>

\* the response is one entry per document, each carrying a number, in one shape
WellFormed(response, documents) ==
    /\ response.kind = "ok" /\ response.isList
    /\ Len(response.items) = Len(documents)
    /\ \A i \in 1..Len(response.items) :
          /\ response.items[i].t \in Shapes
          /\ response.items[i].full
          /\ response.items[i].t = response.items[1].t

\* C3: when the backend call or the handling of its response fails, rerank
\* raises nothing and returns every document, in order, each scored 0.5.
C3_FailureFallsBack ==
    (rk_pc = "returned" /\ rk_documents # <<>> /\ ~WellFormed(rk_response, rk_documents))
        => /\ rk_result.raised = ""
           /\ Len(rk_result.value) = Len(rk_documents)
           /\ \A i \in 1..Len(rk_documents) :
                 /\ rk_result.value[i].doc = rk_documents[i]
                 /\ rk_result.value[i].score = Num(NEUTRAL_SCORE)

\* C4: whatever the backend answers, the returned sequence has
\* min(top_n, len(docs)) entries when top_n is given and len(docs) otherwise.
C4_LengthIsMinTopN ==
    (rk_pc = "returned" /\ rk_result.raised = "")
        => Len(rk_result.value) =
              IF rk_top_n.given THEN Min(rk_top_n.n, Len(rk_documents))
              ELSE Len(rk_documents)

\* the place of a document in the input list
Pos(doc) == CHOOSE i \in 1..Len(rk_documents) : rk_documents[i] = doc

\* C5: what rerank returns is in non-increasing score order, and documents of
\* equal score keep the relative order they had in the input.
C5_SortedDescendingStable ==
    (rk_pc = "returned" /\ rk_result.raised = "")
        => \A i, j \in 1..Len(rk_result.value) :
              i < j =>
                 /\ rk_result.value[i].score.v >= rk_result.value[j].score.v
                 /\ rk_result.value[i].score.v = rk_result.value[j].score.v
                       => Pos(rk_result.value[i].doc) < Pos(rk_result.value[j].doc)

\* C5's case: a truncated result whose first document was not first in the
\* input, followed by a tie
C5_Witness ==
    /\ rk_pc = "returned" /\ rk_response.kind = "ok" /\ rk_result.raised = ""
    /\ Len(rk_documents) = 3 /\ rk_top_n = TopN(2)
    /\ rk_result.value = << [doc |-> "c2", score |-> Num(1)],
                            [doc |-> "c1", score |-> Num(0)] >>

\* C6: inspect rejects every query longer than max_length.
C6_OverlongQueryRejected ==
    (rt_pc = "ended" /\ Len(rt_query) > max_length)
        => rt_result.raised = "" /\ ~rt_result.value.allowed

\* C7: the first check that fires, in the order empty, over-length, blocked
\* pattern, alone decides; a query is accepted exactly when none fires.
C7_FirstCheckDecides ==
    rt_pc = "ended" => rt_result = Returned(ExpectedDecision(rt_query))

\* C8: on a response of one entry per document, in any of the three shapes,
\* each returned document carries the score of the response entry at its own
\* position, and without top_n every document is returned.
C8_ScoresAlignedByPosition ==
    (rk_pc = "returned" /\ rk_documents # <<>> /\ WellFormed(rk_response, rk_documents))
        => /\ rk_result.raised = ""
           /\ ~rk_top_n.given => Len(rk_result.value) = Len(rk_documents)
           /\ \A i \in 1..Len(rk_result.value) :
                 rk_result.value[i].score =
                    Num(rk_response.items[Pos(rk_result.value[i].doc)].v)

\* C8's case: three labeled scores, not all equal, all returned
C8_Witness ==
    /\ rk_pc = "returned" /\ WellFormed(rk_response, rk_documents)
    /\ Len(rk_documents) = 3 /\ rk_response.items[1].t = "dict"
    /\ rk_response.items[1].v # rk_response.items[3].v
    /\ Len(rk_result.value) = 3

\* the chunking invariant: size > 0, and 0 <= overlap < size for the
\* strategies that honor the overlap, and a known strategy
ValidConfig(c) ==
    /\ c.strategy \in ChunkingStrategy
    /\ c.chunk_size > 0
    /\ c.strategy # "naive" => (0 <= c.chunk_overlap /\ c.chunk_overlap < c.chunk_size)

\* C9: a configuration that breaks the chunking invariant, or names an
\* unknown strategy, is rejected when it is constructed: none is ever bound,
\* and no chunk call raises a configuration error.
C9_InvalidConfigRejectedAtConstruction ==
    /\ ck_config.bound => ValidConfig(ck_config)
    /\ ck_pc = "chunked" => ck_result.raised = ""

RerankCalls == {i \in 1..Len(calls) : calls[i].port = "rerank"}

\* C10: the store is asked for retrieval_top_k rows with reranking and for
\* rerank_top_n without; with reranking the Reranker is called once, with the
\* retrieved texts in order and top_n = rerank_top_n, and the context is its
\* output in its order; without, it is never called.
C10_TwoStageRetrieval ==
    /\ \A i \in 1..Len(calls) :
          calls[i].port = "vector" =>
             calls[i].k = IF args.use_reranker THEN args.retrieval_top_k
                          ELSE args.rerank_top_n
    /\ ~args.use_reranker => RerankCalls = {}
    /\ Cardinality(RerankCalls) <= 1
    /\ \A i \in RerankCalls :
          /\ calls[i].docs = SubSeq(store, 1, Min(args.retrieval_top_k, Len(store)))
          /\ calls[i].top_n = TopN(args.rerank_top_n)
    /\ \A i \in 1..Len(calls) :
          calls[i].port = "answer" =>
             IF args.use_reranker
             THEN /\ \E j \in RerankCalls : j < i
                  /\ calls[i].context =
                        join(SEPARATOR, [n \in 1..Len(reranked_results) |->
                                            reranked_results[n].doc])
             ELSE calls[i].context =
                     join(SEPARATOR, SubSeq(store, 1, Min(args.rerank_top_n, Len(store))))

\* C10's case: three texts retrieved, two kept by the reranker, reordered
C10_Witness ==
    /\ pc = "DONE" /\ args.use_reranker
    /\ Len(retrieved) = 3 /\ args.rerank_top_n = 2
    /\ Len(reranked_results) = 2 /\ reranked_results[1].doc # retrieved[1]
    /\ context = <<reranked_results[1].doc, SEPARATOR, reranked_results[2].doc>>

\* the ports a run calls, in order
PortOrder ==
    IF args.use_reranker THEN <<"embed", "vector", "rerank", "answer">>
    ELSE <<"embed", "vector", "answer">>

\* the steps of the stage order; an exception that nothing catches ends the
\* run where it is raised
StageSteps ==
    { <<"ROUTING", "BLOCKED">>, <<"ROUTING", "EMBEDDING">>,
      <<"EMBEDDING", "RETRIEVING">>, <<"RETRIEVING", "RERANKING">>,
      <<"RETRIEVING", "ANSWERING">>, <<"RERANKING", "ANSWERING">>,
      <<"ANSWERING", "DONE">> }
    \cup { <<"START", "ROUTING">>, <<"START", "CRASHED">>, <<"ROUTING", "CRASHED">> }
    \cup { <<st, "FAILED">> : st \in {"EMBEDDING", "RETRIEVING", "RERANKING", "ANSWERING"} }

\* the calls made so far are the first ports of the order, each once, and
\* the run stands at the stage that follows the last call
CallsInOrder ==
    /\ Len(calls) <= Len(PortOrder)
    /\ \A i \in 1..Len(calls) : calls[i].port = PortOrder[i]
    /\ pc \in {"START", "CRASHED", "ROUTING", "BLOCKED", "EMBEDDING"} => calls = <<>>
    /\ pc = "RETRIEVING" => Len(calls) = 1
    /\ pc = "RERANKING" => Len(calls) = 2 /\ args.use_reranker
    /\ pc = "ANSWERING" => Len(calls) = Len(PortOrder) - 1
    /\ pc = "DONE" => Len(calls) = Len(PortOrder)

\* a step moves along the stage order, makes at most one call, the call of
\* the stage it leaves, and none from a terminal stage
StepInOrder ==
    /\ pc' # pc => <<pc, pc'>> \in StageSteps
    /\ calls' # calls =>
          /\ pc \in {"EMBEDDING", "RETRIEVING", "RERANKING", "ANSWERING"}
          /\ Len(calls') = Len(calls) + 1
          /\ SubSeq(calls', 1, Len(calls)) = calls
    /\ pc \in {"BLOCKED", "DONE", "FAILED", "CRASHED"} => (pc' = pc /\ calls' = calls)

\* C11: a run follows ROUTING -> {BLOCKED | EMBEDDING} -> RETRIEVING ->
\* [RERANKING] -> ANSWERING -> DONE: each port is called at most once, after
\* the stage before it has returned; no stage is entered twice or skipped,
\* but RERANKING when reranking is off; nothing is called from BLOCKED or DONE.
C11_StageOrder == []CallsInOrder /\ [][StepInOrder]_vars

\* C11's case: a run through all four calls, RERANKING included, to DONE
C11_Witness ==
    /\ pc = "DONE" /\ args.use_reranker /\ Len(calls) = 4
    /\ calls[3].port = "rerank" /\ calls[4].port = "answer"

====
